---- MODULE Spec2Model ----
(***************************************************************************)
(* Checkout orchestration of the nekuda shopping agent demo: the stage     *)
(* controller (useGlobalState), the three stage hooks (useStageShopping,   *)
(* useStageCollectPayment, useStageCompletePurchase), the wallet token     *)
(* store (utils/walletState.ts), the error classifier (utils/errorHandlers) *)
(* and the cart commands of ShoppingCart.                                  *)
(*                                                                         *)
(* Strings that the code inspects (error messages) are sequences of        *)
(* one-character strings, so that toLowerCase and includes are computed.   *)
(* Emoji of the user-facing texts are left out of the string literals.     *)
(***************************************************************************)
EXTENDS Integers, Sequences, FiniteSets, TLC

VARIABLES stage, paymentToken, lastPurchaseResult, lastError, cartItems,
          localStorage, collect, runs, last

vars == <<stage, paymentToken, lastPurchaseResult, lastError, cartItems,
          localStorage, collect, runs, last>>

----------------------------------------------------------------------------
(* Bounds of the model *)

\* number of "pending" answers the status service gives one purchase in Spec
MaxPending == 1

\* largest quantity of one product in the cart
MaxQty == 2

\* number of "pending" answers the status service gives one purchase in SpecProgress
MaxProgressPolls == 3

----------------------------------------------------------------------------
(* JavaScript values *)

NULL == "<null>"

UNDEFINED == "<undefined>"

\* truthiness of a string | null | undefined value
Truthy(v) == v # NULL /\ v # UNDEFINED /\ v # ""

\* String(v) / template-literal coercion of a string | undefined value
ToStr(v) == IF v = UNDEFINED THEN "undefined" ELSE IF v = NULL THEN "null" ELSE v

CURRENT_USER_ID == "test_user_123"

fixedUserId == "test_user_123"

----------------------------------------------------------------------------
(* Character strings *)

UpperChars == <<"A","B","C","D","E","F","G","H","I","J","K","L","M","N","O","P","Q","R","S","T","U","V","W","X","Y","Z">>

LowerChars == <<"a","b","c","d","e","f","g","h","i","j","k","l","m","n","o","p","q","r","s","t","u","v","w","x","y","z">>

ToLowerChar(c) == IF \E i \in 1..Len(UpperChars) : UpperChars[i] = c
                  THEN LowerChars[CHOOSE i \in 1..Len(UpperChars) : UpperChars[i] = c]
                  ELSE c

\* String.prototype.toLowerCase
ToLowerCase(s) == [i \in 1..Len(s) |-> ToLowerChar(s[i])]

\* String.prototype.includes
Includes(s, sub) == \E i \in 1..(Len(s) - Len(sub) + 1) : SubSeq(s, i, i + Len(sub) - 1) = sub

Digits == <<"0","1","2","3","4","5","6","7","8","9">>

RECURSIVE NatToChars(_)
\* decimal digits of a natural number
NatToChars(n) == IF n < 10 THEN <<Digits[n + 1]>>
                 ELSE NatToChars(n \div 10) \o <<Digits[(n % 10) + 1]>>

RECURSIVE FracChars(_, _, _)
\* decimal expansion of num/den (0 <= num < den), at most k digits, no trailing zeros
FracChars(num, den, k) == IF num = 0 \/ k = 0 THEN <<>>
                          ELSE <<Digits[((num * 10) \div den) + 1]>> \o FracChars((num * 10) % den, den, k - 1)

\* Number-to-string of the quotient num/den as a template literal prints it
QuotientToChars(num, den) == NatToChars(num \div den) \o
                             (IF num % den = 0 THEN <<>> ELSE <<".">> \o FracChars(num % den, den, 6))

KW_FETCH == <<"f","e","t","c","h">>
KW_NETWORK == <<"n","e","t","w","o","r","k">>
KW_CONNECTION == <<"c","o","n","n","e","c","t","i","o","n">>
KW_AUTOMATION == <<"a","u","t","o","m","a","t","i","o","n">>
KW_BROWSER == <<"b","r","o","w","s","e","r">>
KW_PAYMENT == <<"p","a","y","m","e","n","t">>
KW_NEKUDA == <<"n","e","k","u","d","a">>
KW_SDK == <<"s","d","k">>
KW_TIMEOUT == <<"t","i","m","e","o","u","t">>

MSG_TIMED_OUT_PREFIX == <<"P","u","r","c","h","a","s","e"," ","t","i","m","e","d"," ","o","u","t"," ","a","f","t","e","r"," ">>
MSG_MINUTES == <<" ","m","i","n","u","t","e","s">>
MSG_CHECKOUT_FAILED == <<"C","h","e","c","k","o","u","t"," ","f","a","i","l","e","d">>
MSG_STATUS_CHECK == <<"E","r","r","o","r"," ","c","h","e","c","k","i","n","g"," ","p","u","r","c","h","a","s","e"," ","s","t","a","t","u","s">>
MSG_FAILED_TO_FETCH == <<"F","a","i","l","e","d"," ","t","o"," ","f","e","t","c","h">>
MSG_OBJECT == <<"[","o","b","j","e","c","t"," ","O","b","j","e","c","t","]">>
MSG_ERROR == <<"E","r","r","o","r">>

\* texts the checkout service sends (detail of a rejected submission, message
\* of a status); the empty string stands for an absent field
DETAIL_NETWORK == <<"N","e","t","w","o","r","k"," ","u","n","r","e","a","c","h","a","b","l","e">>
DETAIL_PAYMENT == <<"P","a","y","m","e","n","t"," ","d","e","c","l","i","n","e","d">>
DETAIL_BROWSER == <<"B","r","o","w","s","e","r"," ","c","r","a","s","h","e","d">>
DETAIL_TIMEOUT == <<"G","a","t","e","w","a","y"," ","T","i","m","e","o","u","t">>
DETAIL_STOCK == <<"O","u","t"," ","o","f"," ","s","t","o","c","k">>
PROGRESS_CART == <<"A","d","d","i","n","g"," ","t","o"," ","c","a","r","t">>
PROGRESS_FORM == <<"F","i","l","l","i","n","g"," ","f","o","r","m">>

----------------------------------------------------------------------------
(* Error classifier (utils/errorHandlers) *)

\* a thrown Error object: only .message is set
ErrorObj(msg) == [kind |-> "Error", message |-> msg, error |-> <<>>]

\* a status payload handed to classifyError: .message and .error as received
StatusObj(msg, err) == [kind |-> "object", message |-> msg, error |-> err]

\* String(error)
StringOf(e) == IF e.kind = "Error"
               THEN (IF e.message = <<>> THEN MSG_ERROR ELSE MSG_ERROR \o <<":"," ">> \o e.message)
               ELSE MSG_OBJECT

\* error?.message || error?.error || String(error)
ExtractMessage(e) == IF e.message # <<>> THEN e.message
                     ELSE IF e.error # <<>> THEN e.error
                     ELSE StringOf(e)

\* a classifier result that gives up on errors it does not know
PurchaseError_UnknownFatal(type, message, details) ==
    [type |-> type, message |-> message, details |-> details, recoverable |-> type # "unknown"]

PurchaseError(type, message, details) ==
    [type |-> type, message |-> message, details |-> details, recoverable |-> TRUE]

\* a classifier that tests the payment keywords before the automation keywords
classifyError_PaymentFirst(e) ==
    LET errorMessage == ExtractMessage(e)
        lowerMessage == ToLowerCase(errorMessage)
    IN  IF Includes(lowerMessage, KW_FETCH) \/ Includes(lowerMessage, KW_NETWORK)
           \/ Includes(lowerMessage, KW_CONNECTION)
        THEN PurchaseError("network", "Cannot connect to checkout service", errorMessage)
        ELSE IF Includes(lowerMessage, KW_PAYMENT) \/ Includes(lowerMessage, KW_NEKUDA)
                \/ Includes(lowerMessage, KW_SDK)
        THEN PurchaseError("payment", "Payment processing failed", errorMessage)
        ELSE IF Includes(lowerMessage, KW_AUTOMATION) \/ Includes(lowerMessage, KW_BROWSER)
        THEN PurchaseError("automation", "Browser automation failed", errorMessage)
        ELSE IF Includes(lowerMessage, KW_TIMEOUT)
        THEN PurchaseError("timeout", "Purchase timed out", errorMessage)
        ELSE PurchaseError("unknown", "An unexpected error occurred", errorMessage)

\* a classifier whose first test lacks the keyword "network"
classifyError_NoNetworkKeyword(e) ==
    LET errorMessage == ExtractMessage(e)
        lowerMessage == ToLowerCase(errorMessage)
    IN  IF Includes(lowerMessage, KW_FETCH) \/ Includes(lowerMessage, KW_CONNECTION)
        THEN PurchaseError("network", "Cannot connect to checkout service", errorMessage)
        ELSE IF Includes(lowerMessage, KW_AUTOMATION) \/ Includes(lowerMessage, KW_BROWSER)
        THEN PurchaseError("automation", "Browser automation failed", errorMessage)
        ELSE IF Includes(lowerMessage, KW_PAYMENT) \/ Includes(lowerMessage, KW_NEKUDA)
                \/ Includes(lowerMessage, KW_SDK)
        THEN PurchaseError("payment", "Payment processing failed", errorMessage)
        ELSE IF Includes(lowerMessage, KW_TIMEOUT)
        THEN PurchaseError("timeout", "Purchase timed out", errorMessage)
        ELSE PurchaseError("unknown", "An unexpected error occurred", errorMessage)

classifyError(e) ==
    LET errorMessage == ExtractMessage(e)
        lowerMessage == ToLowerCase(errorMessage)
    IN  IF Includes(lowerMessage, KW_FETCH) \/ Includes(lowerMessage, KW_NETWORK)
           \/ Includes(lowerMessage, KW_CONNECTION)
        THEN PurchaseError("network", "Cannot connect to checkout service", errorMessage)
        ELSE IF Includes(lowerMessage, KW_AUTOMATION) \/ Includes(lowerMessage, KW_BROWSER)
        THEN PurchaseError("automation", "Browser automation failed", errorMessage)
        ELSE IF Includes(lowerMessage, KW_PAYMENT) \/ Includes(lowerMessage, KW_NEKUDA)
                \/ Includes(lowerMessage, KW_SDK)
        THEN PurchaseError("payment", "Payment processing failed", errorMessage)
        ELSE IF Includes(lowerMessage, KW_TIMEOUT)
        THEN PurchaseError("timeout", "Purchase timed out", errorMessage)
        ELSE PurchaseError("unknown", "An unexpected error occurred", errorMessage)

\* the text of getErrorMessage: the heading of the switch case taken, the
\* error's message, and the closing lines of that case
getErrorMessage(error) ==
    CASE error.type = "network" ->
           <<"Connection Error: ", error.message, "Please ensure: ... Your cart has been preserved.">>
      [] error.type = "automation" ->
           <<"Browser Automation Error: ", error.message, "Troubleshooting: ... Your cart has been preserved.">>
      [] error.type = "payment" ->
           <<"Payment Processing Error: ", error.message, "Please check: ... Your cart has been preserved.">>
      [] error.type = "timeout" ->
           <<"Purchase Timeout: ", error.message, "The purchase is taking longer than expected. Your cart has been preserved. Please try again later.">>
      [] OTHER ->
           <<"Purchase Failed: ", error.message, "Your cart has been preserved. Please try again or contact support if the issue persists.">>

----------------------------------------------------------------------------
(* Wallet token store (utils/walletState.ts) over localStorage *)

\* card token ids the wallet widget and the cards API hand out
CardTokens == {"card_token_0001", "tok_1"}

\* what the wallet widget may pass to onSuccess: a card token id or the sentinel
WidgetTokens == CardTokens \cup {"token_placeholder"}

\* the widget answers of the sessions
SessionTokens == {"card_token_0001", "token_placeholder"}

OneToken == {"card_token_0001"}

\* values passed as userId: the current user, another user, a missing
\* argument, and a card token passed in the userId position
UserIdArgs == {CURRENT_USER_ID, "user_b", UNDEFINED} \cup WidgetTokens

getUserWalletKey(userId) == <<"nekuda_wallet_token_", ToStr(userId)>>

StorageKeys == {getUserWalletKey(u) : u \in UserIdArgs}

\* a save that keeps a value already stored
saveWalletToken_FirstWins(ls, userId, token) ==
    IF ls[getUserWalletKey(userId)] = NULL
    THEN [ls EXCEPT ![getUserWalletKey(userId)] = ToStr(token)]
    ELSE ls

\* localStorage.setItem(key(userId), token): the value is stored as a string
saveWalletToken(ls, userId, token) == [ls EXCEPT ![getUserWalletKey(userId)] = ToStr(token)]

\* localStorage.getItem(key(userId)): the stored string or null
getWalletToken(ls, userId) == ls[getUserWalletKey(userId)]

\* localStorage.removeItem(key(userId))
clearWalletToken(ls, userId) == [ls EXCEPT ![getUserWalletKey(userId)] = NULL]

hasWalletToken(ls, userId) == getWalletToken(ls, userId) # NULL

----------------------------------------------------------------------------
(* Cart *)

\* the product catalog served by GET /api/products
Products == {[id |-> "NK-001", name |-> "Tee", price |-> 20],
             [id |-> "NK-002", name |-> "Cap", price |-> 15]}

\* the catalog of the small sessions
OneProduct == {[id |-> "NK-001", name |-> "Tee", price |-> 20]}

RECURSIVE SumCart(_)
\* cartItems.reduce((sum, item) => sum + item.price * item.quantity, 0)
SumCart(items) == IF items = <<>> THEN 0
                  ELSE Head(items).price * Head(items).quantity + SumCart(Tail(items))

total == SumCart(cartItems)

\* indices of the cart lines of a product
LinesOf(items, productId) == {i \in 1..Len(items) : items[i].id = productId}

\* prev.filter(item => item.id !== productId)
RECURSIVE FilterOut(_, _)
FilterOut(items, productId) ==
    IF items = <<>> THEN <<>>
    ELSE IF Head(items).id = productId THEN FilterOut(Tail(items), productId)
    ELSE <<Head(items)>> \o FilterOut(Tail(items), productId)

\* cartItems.map(item => `${item.quantity}x ${item.name}`)
ItemsSummary(items) == [i \in 1..Len(items) |-> <<items[i].quantity, items[i].name>>]

----------------------------------------------------------------------------
(* State *)

Stages == {"shopping", "collectPayment", "completePurchase"}

\* a ceiling one short
maxAttempts_OneShort == 120 - 1

\* polling ceiling of processPurchase
maxAttempts == 120

\* seconds between two polls
pollSeconds == 5

\* what a handler returned (or handed to respond): the fixed text it chose,
\* the progress history it put in front, and the values it interpolated
NoRet == [text |-> <<>>, history |-> <<>>, orderId |-> "", total |-> 0, items |-> <<>>]

Ret(text) == [NoRet EXCEPT !.text = text]

\* the step just taken: the operation, the processPurchase invocation it
\* belongs to (0: none), the request it issued, what it returned; for a step
\* of an invocation also what was thrown into the catch block, the status
\* and the message the step received, and the number of polls the invocation
\* has issued; for a call of the token store its arguments, for a completed
\* purchase the cart and the session token it found
Last(op, run, net, ret) ==
    [op |-> op, run |-> run, net |-> net, ret |-> ret, cause |-> "", input |-> "",
     message |-> <<>>, polls |-> 0, args |-> <<>>]

\* slots for processPurchase invocations that are suspended at the same time
RunIds == {1, 2}

\* the slot used when invocations do not overlap
OneRun == {1}

\* no processPurchase invocation is suspended
Quiet == \A r \in RunIds : runs[r].pc = "idle"

\* a processPurchase invocation: where it is suspended and its local variables
\* (cartItems, total and token are the values captured when it was invoked;
\* statusData is the message of the status answer of the current iteration)
IdleRun == [pc |-> "idle", cartItems |-> <<>>, total |-> 0, token |-> NULL,
            attempts |-> 0, polls |-> 0, lastStatus |-> <<>>, statusUpdates |-> <<>>,
            statusData |-> <<>>]

Init ==
    /\ stage = "shopping"
    /\ paymentToken = NULL
    /\ lastPurchaseResult = <<>>
    /\ lastError = <<>>
    /\ cartItems = <<>>
    /\ localStorage = [k \in StorageKeys |-> NULL]
    /\ collect = "idle"
    /\ runs = [r \in RunIds |-> IdleRun]
    /\ last = Last("init", 0, "none", NoRet)

----------------------------------------------------------------------------
(* Stage gate of the commands *)

\* a gate that offers every command in every stage
Available_Always(commandStage) == TRUE

\* available: stage === commandStage ? "enabled" : "disabled"
Available(commandStage) == stage = commandStage

----------------------------------------------------------------------------
(* Token gates of the stage hooks *)

\* a gate that reads the store slot of the current user
ExistingToken_CurrentUser == IF Truthy(getWalletToken(localStorage, CURRENT_USER_ID))
                             THEN getWalletToken(localStorage, CURRENT_USER_ID)
                             ELSE paymentToken

\* useStageShopping / useStageCollectPayment: getWalletToken() || paymentToken
ExistingToken == IF Truthy(getWalletToken(localStorage, UNDEFINED))
                 THEN getWalletToken(localStorage, UNDEFINED)
                 ELSE paymentToken

\* the gate without its truthiness test: null passes
HasValidToken_NullPasses(t) == t # "" /\ t # "token_placeholder"

\* existingToken && existingToken !== '' && existingToken !== 'token_placeholder'
HasValidToken(t) == Truthy(t) /\ t # "" /\ t # "token_placeholder"

\* useStageCompletePurchase: paymentToken || getWalletToken(CURRENT_USER_ID)
PurchaseToken == IF Truthy(paymentToken)
                 THEN paymentToken
                 ELSE getWalletToken(localStorage, CURRENT_USER_ID)

\* the check without the sentinel: "token_placeholder" is submitted
TokenMissing_NoSentinel(t) == ~Truthy(t) \/ t = ""

\* !token || token === '' || token === 'token_placeholder'
TokenMissing(t) == ~Truthy(t) \/ t = "" \/ t = "token_placeholder"

----------------------------------------------------------------------------
(* Shopping stage: startCheckout *)

StartCheckout ==
    /\ Available("shopping")
    /\ UNCHANGED <<paymentToken, lastPurchaseResult, lastError, cartItems,
                   localStorage, collect, runs>>
    /\ IF Len(cartItems) = 0
       THEN /\ stage' = stage
            /\ last' = Last("startCheckout", 0, "none",
                            Ret(<<"Your cart is empty. Please add some items before checking out.">>))
       ELSE IF HasValidToken(ExistingToken)
       THEN /\ stage' = "completePurchase"
            /\ last' = Last("startCheckout", 0, "none",
                            [Ret(<<"Starting checkout", "Payment information found, processing purchase...">>)
                               EXCEPT !.total = total])
       ELSE /\ stage' = "collectPayment"
            /\ last' = Last("startCheckout", 0, "none",
                            [Ret(<<"Starting checkout", "I'll need to collect your payment information.">>)
                               EXCEPT !.total = total])

----------------------------------------------------------------------------
(* Payment stage: collectPaymentInfo (renderAndWaitForResponse) *)

\* the action is invoked and rendered with status "executing"
CollectPaymentInfo ==
    /\ Available("collectPayment")
    /\ collect = "idle"
    /\ collect' = IF HasValidToken(ExistingToken) THEN "timer" ELSE "widget"
    /\ last' = Last("collectPaymentInfo", 0, "none", NoRet)
    /\ UNCHANGED <<stage, paymentToken, lastPurchaseResult, lastError, cartItems,
                   localStorage, runs>>

\* the setTimeout(..., 0) callback of the "already exists" branch
CollectTimer ==
    /\ collect = "timer"
    /\ collect' = "idle"
    /\ stage' = "completePurchase"
    /\ last' = Last("collectPaymentInfo:exists", 0, "none",
                    Ret(<<"Payment information already exists">>))
    /\ UNCHANGED <<paymentToken, lastPurchaseResult, lastError, cartItems,
                   localStorage, runs>>

\* an onSuccess that stores the token and does not set the session token
CollectSuccess_StoreOnly(cardTokenId) ==
    /\ collect = "widget"
    /\ collect' = "idle"
    /\ localStorage' = saveWalletToken(localStorage, cardTokenId, UNDEFINED)
    /\ stage' = "completePurchase"
    /\ last' = Last("collectPaymentInfo:success", 0, "none",
                    Ret(<<"Payment information collected successfully">>))
    /\ UNCHANGED <<paymentToken, lastPurchaseResult, lastError, cartItems, runs>>

\* WalletWidget onSuccess(cardTokenId)
CollectSuccess(cardTokenId) ==
    /\ collect = "widget"
    /\ collect' = "idle"
    /\ localStorage' = saveWalletToken(localStorage, cardTokenId, UNDEFINED)
    /\ paymentToken' = cardTokenId
    /\ stage' = "completePurchase"
    /\ last' = Last("collectPaymentInfo:success", 0, "none",
                    Ret(<<"Payment information collected successfully">>))
    /\ UNCHANGED <<lastPurchaseResult, lastError, cartItems, runs>>

----------------------------------------------------------------------------
(* Purchase stage: processPurchase *)

\* the message of the Error thrown after the loop
TimeoutMessage == MSG_TIMED_OUT_PREFIX \o QuotientToChars(maxAttempts * pollSeconds, 60) \o MSG_MINUTES

\* the lowest free invocation slot among ids
FreeSlot(ids, r) == /\ r \in ids
                    /\ runs[r].pc = "idle"
                    /\ \A q \in ids : q < r => runs[q].pc # "idle"

\* the handler with the token check in front of the empty-cart check
ProcessPurchase_TokenFirst(ids) ==
    /\ Available("completePurchase")
    /\ UNCHANGED <<paymentToken, lastPurchaseResult, lastError, cartItems,
                   localStorage, collect>>
    /\ IF TokenMissing(PurchaseToken)
       THEN /\ stage' = "collectPayment"
            /\ runs' = runs
            /\ last' = Last("processPurchase", 0, "none",
                            Ret(<<"Payment information is missing. Please provide payment details.">>))
       ELSE IF Len(cartItems) = 0
       THEN /\ stage' = "shopping"
            /\ runs' = runs
            /\ last' = Last("processPurchase", 0, "none",
                            Ret(<<"Cannot complete purchase - your cart is empty!">>))
       ELSE \E r \in ids :
            /\ FreeSlot(ids, r)
            /\ stage' = stage
            /\ runs' = [runs EXCEPT ![r] = [IdleRun EXCEPT !.pc = "submit",
                                                           !.cartItems = cartItems,
                                                           !.total = total,
                                                           !.token = PurchaseToken]]
            /\ last' = Last("processPurchase", r, "submit", NoRet)

\* the handler up to its first await: the two preconditions, then the POST
ProcessPurchase(ids) ==
    /\ Available("completePurchase")
    /\ UNCHANGED <<paymentToken, lastPurchaseResult, lastError, cartItems,
                   localStorage, collect>>
    /\ IF Len(cartItems) = 0
       THEN /\ stage' = "shopping"
            /\ runs' = runs
            /\ last' = Last("processPurchase", 0, "none",
                            Ret(<<"Cannot complete purchase - your cart is empty!">>))
       ELSE IF TokenMissing(PurchaseToken)
       THEN /\ stage' = "collectPayment"
            /\ runs' = runs
            /\ last' = Last("processPurchase", 0, "none",
                            Ret(<<"Payment information is missing. Please provide payment details.">>))
       ELSE \E r \in ids :
            /\ FreeSlot(ids, r)
            /\ stage' = stage
            /\ runs' = [runs EXCEPT ![r] = [IdleRun EXCEPT !.pc = "submit",
                                                           !.cartItems = cartItems,
                                                           !.total = total,
                                                           !.token = PurchaseToken]]
            /\ last' = Last("processPurchase", r, "submit", NoRet)

\* a catch block that also resets the cart
Catch_ClearsCart(r, e, cause, input) ==
    LET classifiedError == classifyError(e)
    IN  /\ lastError' = <<classifiedError>>
        /\ stage' = "shopping"
        /\ cartItems' = <<>>
        /\ runs' = [runs EXCEPT ![r] = IdleRun]
        /\ last' = [Last("processPurchase:catch", r, "none", Ret(getErrorMessage(classifiedError)))
                       EXCEPT !.cause = cause, !.input = input, !.polls = runs[r].polls]
        /\ UNCHANGED <<paymentToken, lastPurchaseResult, localStorage, collect>>

\* a catch block that stores the error and leaves the stage where it is
Catch_StageStays(r, e, cause, input) ==
    LET classifiedError == classifyError(e)
    IN  /\ lastError' = <<classifiedError>>
        /\ runs' = [runs EXCEPT ![r] = IdleRun]
        /\ last' = [Last("processPurchase:catch", r, "none", Ret(getErrorMessage(classifiedError)))
                       EXCEPT !.cause = cause, !.input = input, !.polls = runs[r].polls]
        /\ UNCHANGED <<stage, paymentToken, lastPurchaseResult, cartItems, localStorage, collect>>

\* a catch block that also drops the session token
Catch_ClearsToken(r, e, cause, input) ==
    LET classifiedError == classifyError(e)
    IN  /\ lastError' = <<classifiedError>>
        /\ stage' = "shopping"
        /\ paymentToken' = NULL
        /\ runs' = [runs EXCEPT ![r] = IdleRun]
        /\ last' = [Last("processPurchase:catch", r, "none", Ret(getErrorMessage(classifiedError)))
                       EXCEPT !.cause = cause, !.input = input, !.polls = runs[r].polls]
        /\ UNCHANGED <<lastPurchaseResult, cartItems, localStorage, collect>>

\* catch (error): classify, store, back to shopping, return the message
Catch(r, e, cause, input) ==
    LET classifiedError == classifyError(e)
    IN  /\ lastError' = <<classifiedError>>
        /\ stage' = "shopping"
        /\ runs' = [runs EXCEPT ![r] = IdleRun]
        /\ last' = [Last("processPurchase:catch", r, "none", Ret(getErrorMessage(classifiedError)))
                       EXCEPT !.cause = cause, !.input = input, !.polls = runs[r].polls]
        /\ UNCHANGED <<paymentToken, lastPurchaseResult, cartItems, localStorage, collect>>

\* while (attempts < maxAttempts) { attempts++; await sleep ... } throw timeout
LoopHead(r, run, input) ==
    IF run.attempts < maxAttempts
    THEN /\ runs' = [runs EXCEPT ![r] = [run EXCEPT !.pc = "sleep", !.attempts = run.attempts + 1,
                                                     !.statusData = <<>>]]
         /\ last' = [Last("processPurchase:loop", r, "none", NoRet)
                        EXCEPT !.input = input, !.message = run.statusData, !.polls = run.polls]
         /\ UNCHANGED <<stage, paymentToken, lastPurchaseResult, lastError, cartItems,
                        localStorage, collect>>
    ELSE Catch(r, ErrorObj(TimeoutMessage), "timeout", input)

\* the POST is answered 2xx with a purchase id
SubmitOk(r, purchaseId) ==
    /\ runs[r].pc = "submit"
    /\ LoopHead(r, [runs[r] EXCEPT !.statusUpdates = <<[tag |-> "initiated", text |-> purchaseId]>>], "")

\* the POST is answered non-2xx with body {detail}
SubmitRejected(r, detail) ==
    /\ runs[r].pc = "submit"
    /\ Catch(r, ErrorObj(IF detail # <<>> THEN detail ELSE MSG_CHECKOUT_FAILED), "submitRejected", "")

\* fetch itself rejects (no response): the TypeError lands in the catch
FetchFailed(r, msg) ==
    /\ runs[r].pc \in {"submit", "poll"}
    /\ Catch(r, ErrorObj(msg), IF runs[r].pc = "submit" THEN "submitFetch" ELSE "pollFetch", "")

\* a loop that does not wait for the answer of a poll before the next one
SleepDone_NoAwait(r) ==
    /\ runs[r].pc \in {"sleep", "poll"}
    /\ runs[r].polls < maxAttempts
    /\ runs' = [runs EXCEPT ![r].pc = "poll", ![r].polls = runs[r].polls + 1]
    /\ last' = [Last("processPurchase:poll", r, "poll", NoRet) EXCEPT !.polls = runs[r].polls + 1]
    /\ UNCHANGED <<stage, paymentToken, lastPurchaseResult, lastError, cartItems,
                   localStorage, collect>>

\* the 5 s timer fires and the status GET is issued
SleepDone(r) ==
    /\ runs[r].pc = "sleep"
    /\ runs' = [runs EXCEPT ![r].pc = "poll", ![r].polls = runs[r].polls + 1]
    /\ last' = [Last("processPurchase:poll", r, "poll", NoRet) EXCEPT !.polls = runs[r].polls + 1]
    /\ UNCHANGED <<stage, paymentToken, lastPurchaseResult, lastError, cartItems,
                   localStorage, collect>>

\* a loop that takes a non-2xx answer for "not yet" and polls again
PollRejected_Retries(r) ==
    /\ runs[r].pc = "poll"
    /\ LoopHead(r, runs[r], "")

\* the status GET is answered non-2xx
PollRejected(r) ==
    /\ runs[r].pc = "poll"
    /\ Catch(r, ErrorObj(MSG_STATUS_CHECK), "pollRejected", "")

\* a collection in which an answer without message forgets the last message
Collected_EmptyResets(run, message) ==
    IF message = <<>> THEN [run EXCEPT !.lastStatus = <<>>]
    ELSE IF message # run.lastStatus
    THEN [run EXCEPT !.lastStatus = message,
                     !.statusUpdates = Append(run.statusUpdates, [tag |-> "progress", text |-> message])]
    ELSE run

\* statusData.message && statusData.message !== lastStatus
Collected(run, message) ==
    IF message # <<>> /\ message # run.lastStatus
    THEN [run EXCEPT !.lastStatus = message,
                     !.statusUpdates = Append(run.statusUpdates, [tag |-> "progress", text |-> message])]
    ELSE run

\* statusUpdates.join('\n') when the guard on its length holds, else ''
StatusHistory(run, least) == IF Len(run.statusUpdates) > least THEN run.statusUpdates ELSE <<>>

\* a success branch that reports the cart as it is when the purchase completes
OnCompleted_LiveCart(r, run, result) ==
    /\ cartItems' = <<>>
    /\ paymentToken' = NULL
    /\ localStorage' = clearWalletToken(localStorage, CURRENT_USER_ID)
    /\ lastPurchaseResult' = <<result>>
    /\ stage' = "shopping"
    /\ runs' = [runs EXCEPT ![r] = IdleRun]
    /\ last' = [Last("processPurchase:completed", r, "none",
                     [text |-> <<"Purchase completed successfully!",
                                 "Your cart has been cleared. You can continue shopping!">>,
                      history |-> StatusHistory(run, 1),
                      orderId |-> IF Truthy(result.store_order_id)
                                  THEN result.store_order_id ELSE "NEKUDA-now",
                      total |-> total,
                      items |-> ItemsSummary(cartItems)])
                   EXCEPT !.input = "completed", !.message = run.statusData, !.polls = run.polls,
                          !.args = <<cartItems, paymentToken>>]
    /\ UNCHANGED <<lastError, collect>>

\* a success branch that keeps the session token
OnCompleted_KeepsToken(r, run, result) ==
    /\ cartItems' = <<>>
    /\ localStorage' = clearWalletToken(localStorage, CURRENT_USER_ID)
    /\ lastPurchaseResult' = <<result>>
    /\ stage' = "shopping"
    /\ runs' = [runs EXCEPT ![r] = IdleRun]
    /\ last' = [Last("processPurchase:completed", r, "none",
                     [text |-> <<"Purchase completed successfully!",
                                 "Your cart has been cleared. You can continue shopping!">>,
                      history |-> StatusHistory(run, 1),
                      orderId |-> IF Truthy(result.store_order_id)
                                  THEN result.store_order_id ELSE "NEKUDA-now",
                      total |-> run.total,
                      items |-> ItemsSummary(run.cartItems)])
                   EXCEPT !.input = "completed", !.message = run.statusData, !.polls = run.polls,
                          !.args = <<cartItems, paymentToken>>]
    /\ UNCHANGED <<paymentToken, lastError, collect>>

\* a success branch that empties the cart only when it is still the cart of
\* the attempt
OnCompleted_KeepsChangedCart(r, run, result) ==
    /\ cartItems' = IF cartItems = run.cartItems THEN <<>> ELSE cartItems
    /\ paymentToken' = NULL
    /\ localStorage' = clearWalletToken(localStorage, CURRENT_USER_ID)
    /\ lastPurchaseResult' = <<result>>
    /\ stage' = "shopping"
    /\ runs' = [runs EXCEPT ![r] = IdleRun]
    /\ last' = [Last("processPurchase:completed", r, "none",
                     [text |-> <<"Purchase completed successfully!",
                                 "Your cart has been cleared. You can continue shopping!">>,
                      history |-> StatusHistory(run, 1),
                      orderId |-> IF Truthy(result.store_order_id)
                                  THEN result.store_order_id ELSE "NEKUDA-now",
                      total |-> run.total,
                      items |-> ItemsSummary(run.cartItems)])
                   EXCEPT !.input = "completed", !.message = run.statusData, !.polls = run.polls,
                          !.args = <<cartItems, paymentToken>>]
    /\ UNCHANGED <<lastError, collect>>

\* if (statusData.status === "completed") { ... }
OnCompleted(r, run, result) ==
    /\ cartItems' = <<>>
    /\ paymentToken' = NULL
    /\ localStorage' = clearWalletToken(localStorage, CURRENT_USER_ID)
    /\ lastPurchaseResult' = <<result>>
    /\ stage' = "shopping"
    /\ runs' = [runs EXCEPT ![r] = IdleRun]
    /\ last' = [Last("processPurchase:completed", r, "none",
                     [text |-> <<"Purchase completed successfully!",
                                 "Your cart has been cleared. You can continue shopping!">>,
                      history |-> StatusHistory(run, 1),
                      orderId |-> IF Truthy(result.store_order_id)
                                  THEN result.store_order_id ELSE "NEKUDA-now",
                      total |-> run.total,
                      items |-> ItemsSummary(run.cartItems)])
                   EXCEPT !.input = "completed", !.message = run.statusData, !.polls = run.polls,
                          !.args = <<cartItems, paymentToken>>]
    /\ UNCHANGED <<lastError, collect>>

\* a failed branch that clears cart and session token as the success branch does
OnFailed_ClearsCart(r, run, message) ==
    LET error == classifyError(StatusObj(message, <<>>))
    IN  /\ lastError' = <<error>>
        /\ stage' = "shopping"
        /\ cartItems' = <<>>
        /\ paymentToken' = NULL
        /\ runs' = [runs EXCEPT ![r] = IdleRun]
        /\ last' = [Last("processPurchase:failed", r, "none",
                         [Ret(getErrorMessage(error)) EXCEPT !.history = StatusHistory(run, 0)])
                       EXCEPT !.input = "failed", !.message = run.statusData, !.polls = run.polls]
        /\ UNCHANGED <<lastPurchaseResult, localStorage, collect>>

\* if (statusData.status === "failed") { ... }
OnFailed(r, run, message) ==
    LET error == classifyError(StatusObj(message, <<>>))
    IN  /\ lastError' = <<error>>
        /\ stage' = "shopping"
        /\ runs' = [runs EXCEPT ![r] = IdleRun]
        /\ last' = [Last("processPurchase:failed", r, "none",
                         [Ret(getErrorMessage(error)) EXCEPT !.history = StatusHistory(run, 0)])
                       EXCEPT !.input = "failed", !.message = run.statusData, !.polls = run.polls]
        /\ UNCHANGED <<paymentToken, lastPurchaseResult, cartItems, localStorage, collect>>

\* a loop that tests the ceiling before it looks at the status of the last poll
PollAnswered_CeilingFirst(r, status, message, result, pendingLimit) ==
    /\ runs[r].pc = "poll"
    /\ LET run == Collected([runs[r] EXCEPT !.statusData = message], message)
       IN  IF run.attempts >= maxAttempts
           THEN Catch(r, ErrorObj(TimeoutMessage), "timeout", status)
           ELSE IF status = "completed" THEN OnCompleted(r, run, result)
           ELSE IF status = "failed" THEN OnFailed(r, run, message)
           ELSE /\ run.attempts <= pendingLimit
                /\ LoopHead(r, run, status)

\* a loop that tests the status first and collects the message of an answer
\* only when it polls on
PollAnswered_StatusFirst(r, status, message, result, pendingLimit) ==
    /\ runs[r].pc = "poll"
    /\ LET answered == [runs[r] EXCEPT !.statusData = message]
       IN  IF status = "completed" THEN OnCompleted(r, answered, result)
           ELSE IF status = "failed" THEN OnFailed(r, answered, message)
           ELSE /\ answered.attempts <= pendingLimit
                /\ LoopHead(r, Collected(answered, message), status)

\* a loop that polls on after "pending" only and takes any other status that
\* is not "completed" for a failure
PollAnswered_PendingOnly(r, status, message, result, pendingLimit) ==
    /\ runs[r].pc = "poll"
    /\ LET run == Collected([runs[r] EXCEPT !.statusData = message], message)
       IN  IF status = "completed" THEN OnCompleted(r, run, result)
           ELSE IF status # "pending" THEN OnFailed(r, run, message)
           ELSE /\ run.attempts <= pendingLimit
                /\ LoopHead(r, run, status)

\* the status GET is answered 2xx with {status, message, result}; a pending
\* answer is given at most pendingLimit times to one purchase
PollAnswered(r, status, message, result, pendingLimit) ==
    /\ runs[r].pc = "poll"
    /\ LET run == Collected([runs[r] EXCEPT !.statusData = message], message)
       IN  IF status = "completed" THEN OnCompleted(r, run, result)
           ELSE IF status = "failed" THEN OnFailed(r, run, message)
           ELSE /\ run.attempts <= pendingLimit
                /\ LoopHead(r, run, status)

\* a continueShopping that also drops the session token
ContinueShopping_ClearsToken ==
    /\ Available("completePurchase")
    /\ stage' = "shopping"
    /\ paymentToken' = NULL
    /\ last' = Last("continueShopping", 0, "none", Ret(<<"Returning to shopping. How can I help you?">>))
    /\ UNCHANGED <<lastPurchaseResult, lastError, cartItems, localStorage, collect, runs>>

\* a continueShopping that abandons the attempts in flight
ContinueShopping_Cancels ==
    /\ Available("completePurchase")
    /\ stage' = "shopping"
    /\ runs' = [r \in RunIds |-> IdleRun]
    /\ last' = Last("continueShopping", 0, "none", Ret(<<"Returning to shopping. How can I help you?">>))
    /\ UNCHANGED <<paymentToken, lastPurchaseResult, lastError, cartItems,
                   localStorage, collect>>

\* continueShopping
ContinueShopping ==
    /\ Available("completePurchase")
    /\ stage' = "shopping"
    /\ last' = Last("continueShopping", 0, "none", Ret(<<"Returning to shopping. How can I help you?">>))
    /\ UNCHANGED <<paymentToken, lastPurchaseResult, lastError, cartItems,
                   localStorage, collect, runs>>

----------------------------------------------------------------------------
(* Cart commands of ShoppingCart (the catalog is loaded) *)

\* addToCart({productId, quantity})
AddToCart(product, quantity) ==
    /\ \A i \in LinesOf(cartItems, product.id) : cartItems[i].quantity + quantity <= MaxQty
    /\ cartItems' = IF LinesOf(cartItems, product.id) # {}
                    THEN [i \in 1..Len(cartItems) |->
                            IF cartItems[i].id = product.id
                            THEN [cartItems[i] EXCEPT !.quantity = cartItems[i].quantity + quantity]
                            ELSE cartItems[i]]
                    ELSE Append(cartItems, [id |-> product.id, name |-> product.name,
                                            price |-> product.price, quantity |-> quantity])
    /\ last' = Last("addToCart", 0, "none", Ret(<<"Added to cart!">>))
    /\ UNCHANGED <<stage, paymentToken, lastPurchaseResult, lastError, localStorage, collect, runs>>

\* removeFromCart({productId, quantity}); quantity 0 stands for "not given"
RemoveFromCart(productId, quantity) ==
    /\ UNCHANGED <<stage, paymentToken, lastPurchaseResult, lastError, localStorage, collect, runs>>
    /\ IF LinesOf(cartItems, productId) = {}
       THEN /\ cartItems' = cartItems
            /\ last' = Last("removeFromCart", 0, "none", Ret(<<"Product not found in cart">>))
       ELSE LET existingItem == cartItems[CHOOSE i \in LinesOf(cartItems, productId) :
                                            \A j \in LinesOf(cartItems, productId) : i <= j]
            IN  /\ cartItems' = IF quantity = 0 \/ quantity >= existingItem.quantity
                                THEN FilterOut(cartItems, productId)
                                ELSE [i \in 1..Len(cartItems) |->
                                        IF cartItems[i].id = productId
                                        THEN [cartItems[i] EXCEPT !.quantity = cartItems[i].quantity - quantity]
                                        ELSE cartItems[i]]
                /\ last' = Last("removeFromCart", 0, "none", Ret(<<"Removed from cart">>))

\* clearCart
ClearCart ==
    /\ cartItems' = <<>>
    /\ last' = Last("clearCart", 0, "none", Ret(<<"Cart cleared successfully!">>))
    /\ UNCHANGED <<stage, paymentToken, lastPurchaseResult, lastError, localStorage, collect, runs>>

----------------------------------------------------------------------------
(* Saved cards (utils/walletState.ts) *)

\* cards.find(card => card.isDefault) || cards[0]
DefaultCard(cards) == IF \E i \in 1..Len(cards) : cards[i].isDefault
                      THEN cards[CHOOSE i \in 1..Len(cards) :
                                   cards[i].isDefault /\ \A j \in 1..(i - 1) : ~cards[j].isDefault]
                      ELSE cards[1]

\* checkAndSaveExistingCards(userId, apiService), getAllCards answering cards
CheckAndSaveExistingCards(userId, cards) ==
    /\ localStorage' = IF Len(cards) > 0
                       THEN saveWalletToken(localStorage, userId, DefaultCard(cards).id)
                       ELSE localStorage
    /\ last' = Last("checkAndSaveExistingCards", 0, "none", NoRet)
    /\ UNCHANGED <<stage, paymentToken, lastPurchaseResult, lastError, cartItems, collect, runs>>

----------------------------------------------------------------------------
(* Inputs *)

PurchaseIds == {<<"p","1">>}

\* detail of a rejected submission (empty: no detail field)
SubmitDetails == {<<>>, DETAIL_NETWORK}

\* message of the TypeError of a fetch that got no response
FetchErrors == {MSG_FAILED_TO_FETCH}

Statuses == {"pending", "completed", "failed"}

\* message field of a status answer (empty: no message)
PollMessages == {<<>>, DETAIL_BROWSER}

\* result field of a status answer (absent, hence {}, or with an order id)
Results == {[store_order_id |-> UNDEFINED], [store_order_id |-> "ORD-1"]}

\* answers of getAllCards
CardLists == {<<>>, <<[id |-> "card_token_0001", isDefault |-> FALSE]>>}

----------------------------------------------------------------------------
(* The session: one purchase attempt at a time; the other commands and      *)
(* callbacks interleave with it at every await.  The status service answers *)
(* pending at most MaxPending times.                                        *)

Next ==
    \/ StartCheckout
    \/ CollectPaymentInfo
    \/ \E t \in SessionTokens : CollectSuccess(t)
    \/ ProcessPurchase(OneRun)
    \/ \E r \in OneRun, p \in PurchaseIds : SubmitOk(r, p)
    \/ \E r \in OneRun, d \in SubmitDetails : SubmitRejected(r, d)
    \/ \E r \in OneRun, m \in FetchErrors : FetchFailed(r, m)
    \/ \E r \in OneRun : SleepDone(r)
    \/ \E r \in OneRun : PollRejected(r)
    \/ \E r \in OneRun, st \in Statuses, m \in PollMessages, res \in Results :
          PollAnswered(r, st, m, res, MaxPending)
    \/ ContinueShopping
    \/ \E p \in OneProduct, q \in 1..MaxQty : AddToCart(p, q)
    \/ \E p \in OneProduct, q \in 0..MaxQty : RemoveFromCart(p.id, q)
    \/ ClearCart
    \/ \E c \in CardLists : CheckAndSaveExistingCards(CURRENT_USER_ID, c)

Spec == Init /\ [][Next]_vars

----------------------------------------------------------------------------
(* Overlapping attempts: processPurchase may be invoked again while an      *)
(* earlier invocation is suspended.                                         *)

NextConc ==
    \/ StartCheckout
    \/ CollectPaymentInfo
    \/ \E t \in OneToken : CollectSuccess(t)
    \/ ProcessPurchase(RunIds)
    \/ \E r \in RunIds, p \in PurchaseIds : SubmitOk(r, p)
    \/ \E r \in RunIds : SubmitRejected(r, DETAIL_NETWORK)
    \/ \E r \in RunIds : SleepDone(r)
    \/ \E r \in RunIds : PollRejected(r)
    \/ \E r \in RunIds, st \in Statuses, res \in Results :
          PollAnswered(r, st, <<>>, res, 1)
    \/ ContinueShopping
    \/ \E p \in OneProduct : AddToCart(p, 1)

SpecConc == Init /\ [][NextConc]_vars

----------------------------------------------------------------------------
(* One attempt polled to the ceiling: the status service may answer pending *)
(* every time; no command is issued while the attempt is in flight.         *)

NextPoll ==
    \/ Quiet /\ StartCheckout
    \/ Quiet /\ CollectPaymentInfo
    \/ Quiet /\ \E t \in SessionTokens : CollectSuccess(t)
    \/ Quiet /\ ProcessPurchase(OneRun)
    \/ \E r \in OneRun, p \in PurchaseIds : SubmitOk(r, p)
    \/ \E r \in OneRun : SubmitRejected(r, DETAIL_NETWORK)
    \/ \E r \in OneRun, m \in FetchErrors : FetchFailed(r, m)
    \/ \E r \in OneRun : SleepDone(r)
    \/ \E r \in OneRun : PollRejected(r)
    \/ \E r \in OneRun, st \in Statuses, m \in {<<>>, DETAIL_PAYMENT}, res \in Results :
          PollAnswered(r, st, m, res, maxAttempts)
    \/ Quiet /\ \E p \in OneProduct, q \in 1..MaxQty : AddToCart(p, q)
    \/ Quiet /\ \E c \in CardLists : CheckAndSaveExistingCards(CURRENT_USER_ID, c)

SpecPoll == Init /\ [][NextPoll]_vars

----------------------------------------------------------------------------
(* The token store on its own: calls of the four exported functions with    *)
(* user ids and tokens drawn from small sets, starting from the empty store *)

\* user ids of the store calls (the last one: a call without a user id)
StoreUsers == {CURRENT_USER_ID, "user_b", UNDEFINED}

\* tokens of the store calls
StoreTokens == CardTokens \cup {""}

SaveWalletToken(userId, token) ==
    /\ localStorage' = saveWalletToken(localStorage, userId, token)
    /\ last' = [Last("saveWalletToken", 0, "none", NoRet) EXCEPT !.args = <<userId, token>>]
    /\ UNCHANGED <<stage, paymentToken, lastPurchaseResult, lastError, cartItems, collect, runs>>

GetWalletToken(userId) ==
    /\ last' = [Last("getWalletToken", 0, "none", Ret(<<getWalletToken(localStorage, userId)>>))
                   EXCEPT !.args = <<userId>>]
    /\ UNCHANGED <<stage, paymentToken, lastPurchaseResult, lastError, cartItems,
                   localStorage, collect, runs>>

ClearWalletToken(userId) ==
    /\ localStorage' = clearWalletToken(localStorage, userId)
    /\ last' = [Last("clearWalletToken", 0, "none", NoRet) EXCEPT !.args = <<userId>>]
    /\ UNCHANGED <<stage, paymentToken, lastPurchaseResult, lastError, cartItems, collect, runs>>

HasWalletToken(userId) ==
    /\ last' = [Last("hasWalletToken", 0, "none", Ret(<<hasWalletToken(localStorage, userId)>>))
                   EXCEPT !.args = <<userId>>]
    /\ UNCHANGED <<stage, paymentToken, lastPurchaseResult, lastError, cartItems,
                   localStorage, collect, runs>>

NextStore ==
    \/ \E u \in StoreUsers, t \in StoreTokens : SaveWalletToken(u, t)
    \/ \E u \in StoreUsers : GetWalletToken(u)
    \/ \E u \in StoreUsers : ClearWalletToken(u)
    \/ \E u \in StoreUsers : HasWalletToken(u)

SpecStore == Init /\ [][NextStore]_vars

----------------------------------------------------------------------------
(* The token checks of the three gates: the widget and the cards service    *)
(* hand out long and short card token ids and the sentinel; one attempt at  *)
(* a time, answered at its first poll.                                      *)

\* answers of getAllCards with a short card id
ShortCardLists == {<<[id |-> "tok_1", isDefault |-> TRUE]>>}

NextGates ==
    \/ Quiet /\ StartCheckout
    \/ Quiet /\ CollectPaymentInfo
    \/ Quiet /\ \E t \in WidgetTokens : CollectSuccess(t)
    \/ Quiet /\ ProcessPurchase(OneRun)
    \/ \E r \in OneRun, p \in PurchaseIds : SubmitOk(r, p)
    \/ \E r \in OneRun : SubmitRejected(r, DETAIL_NETWORK)
    \/ \E r \in OneRun : SleepDone(r)
    \/ \E r \in OneRun, st \in {"completed", "failed"} :
          PollAnswered(r, st, <<>>, [store_order_id |-> "ORD-1"], 0)
    \/ Quiet /\ ContinueShopping
    \/ Quiet /\ \E p \in OneProduct : AddToCart(p, 1)
    \/ Quiet /\ \E c \in CardLists \cup ShortCardLists : CheckAndSaveExistingCards(CURRENT_USER_ID, c)

SpecGates == Init /\ [][NextGates]_vars

----------------------------------------------------------------------------
(* Progress messages: one attempt whose status answers carry no message or  *)
(* one of two progress messages; the status service answers pending at most *)
(* MaxProgressPolls times.                                                  *)

ProgressMessages == {<<>>, PROGRESS_CART, PROGRESS_FORM}

NextProgress ==
    \/ Quiet /\ StartCheckout
    \/ Quiet /\ CollectPaymentInfo
    \/ Quiet /\ \E t \in OneToken : CollectSuccess(t)
    \/ Quiet /\ ProcessPurchase(OneRun)
    \/ \E r \in OneRun, p \in PurchaseIds : SubmitOk(r, p)
    \/ \E r \in OneRun : SleepDone(r)
    \/ \E r \in OneRun : PollRejected(r)
    \/ \E r \in OneRun, st \in Statuses, m \in ProgressMessages :
          PollAnswered(r, st, m, [store_order_id |-> "ORD-1"], MaxProgressPolls)
    \/ Quiet /\ \E p \in OneProduct : AddToCart(p, 1)

SpecProgress == Init /\ [][NextProgress]_vars

----------------------------------------------------------------------------
(* The error classifier on its own: classifyError applied to thrown Errors  *)
(* and to status payloads whose texts are one or two words, each a keyword  *)
(* of a class (lower or upper case) or a word of no class.                  *)

WORD_DECLINED == <<"d","e","c","l","i","n","e","d">>

WORD_TIMEOUT_UPPER == <<"T","I","M","E","O","U","T">>

WORD_SDK_CAPITAL == <<"S","d","k">>

ClassifierWords == {KW_FETCH, KW_NETWORK, KW_CONNECTION, KW_AUTOMATION, KW_BROWSER, KW_PAYMENT,
                    KW_NEKUDA, KW_SDK, KW_TIMEOUT, WORD_DECLINED, WORD_TIMEOUT_UPPER,
                    WORD_SDK_CAPITAL}

ClassifierTexts == ClassifierWords
                   \cup {w1 \o <<" ">> \o w2 : w1 \in ClassifierWords, w2 \in ClassifierWords}
                   \cup {MSG_CHECKOUT_FAILED, MSG_STATUS_CHECK, MSG_FAILED_TO_FETCH, TimeoutMessage}

\* what reaches classifyError: an Error with a message, a status payload with
\* a message, with an error field only, or with neither
ClassifierInputs == {ErrorObj(m) : m \in ClassifierTexts \cup {<<>>}}
                    \cup {StatusObj(m, <<>>) : m \in ClassifierTexts \cup {<<>>}}
                    \cup {StatusObj(<<>>, m) : m \in ClassifierWords}
                    \cup {StatusObj(WORD_DECLINED, m) : m \in ClassifierWords}

ClassifyError(e) ==
    /\ last' = [Last("classifyError", 0, "none", Ret(<<classifyError(e)>>)) EXCEPT !.args = <<e>>]
    /\ UNCHANGED <<stage, paymentToken, lastPurchaseResult, lastError, cartItems,
                   localStorage, collect, runs>>

GetErrorMessage(e) ==
    /\ last' = [Last("getErrorMessage", 0, "none", Ret(getErrorMessage(classifyError(e))))
                   EXCEPT !.args = <<classifyError(e)>>]
    /\ UNCHANGED <<stage, paymentToken, lastPurchaseResult, lastError, cartItems,
                   localStorage, collect, runs>>

NextClassify ==
    \/ \E e \in ClassifierInputs : ClassifyError(e)
    \/ \E e \in ClassifierInputs : GetErrorMessage(e)

SpecClassify == Init /\ [][NextClassify]_vars

----------------------------------------------------------------------------
(* Status values: one attempt whose status answers carry any status value,  *)
(* also one the loop does not name and none at all; the status service may  *)
(* give a non-terminal answer every time, up to the ceiling.                *)

\* status values the loop does not name: another string, a missing field
OtherStatuses == {"processing", UNDEFINED}

\* the status GET is answered 2xx with {status}, no message, an order id
StatusAnswered(r, status) ==
    PollAnswered(r, status, <<>>, [store_order_id |-> "ORD-1"], maxAttempts)

NextStatus ==
    \/ Quiet /\ StartCheckout
    \/ Quiet /\ CollectPaymentInfo
    \/ Quiet /\ \E t \in OneToken : CollectSuccess(t)
    \/ Quiet /\ ProcessPurchase(OneRun)
    \/ \E r \in OneRun, p \in PurchaseIds : SubmitOk(r, p)
    \/ \E r \in OneRun : SleepDone(r)
    \/ \E r \in OneRun, st \in Statuses \cup OtherStatuses : StatusAnswered(r, st)
    \/ Quiet /\ \E p \in OneProduct : AddToCart(p, 1)

SpecStatus == Init /\ [][NextStatus]_vars

----------------------------------------------------------------------------
(* Properties *)

\* a payment token: a string other than the sentinels "" and "token_placeholder"
IsToken(t) == t \notin {NULL, UNDEFINED, "", "token_placeholder"}

\* the current user has a token, in session state or in the store
ValidTokenForCurrentUser ==
    \/ IsToken(paymentToken)
    \/ IsToken(localStorage[<<"nekuda_wallet_token_", CURRENT_USER_ID>>])

EmptyCartText == <<"Cannot complete purchase - your cart is empty!">>

MissingTokenText == <<"Payment information is missing. Please provide payment details.">>

\* the steps of processPurchase: its invocation and the resumptions of a
\* suspended invocation
OrchestratorOps == {"processPurchase", "processPurchase:loop", "processPurchase:poll",
                    "processPurchase:catch", "processPurchase:completed", "processPurchase:failed"}

ErrorTypes == {"network", "automation", "payment", "timeout", "unknown"}

InFlight == {r \in RunIds : runs[r].pc # "idle"}

\* C1: startCheckout in stage shopping with a non-empty cart and a valid token
\* of the current user (session state or store) moves the stage straight to
\* completePurchase.
C1_CheckoutWithTokenGoesToPurchase ==
    [][(last'.op = "startCheckout" /\ stage = "shopping" /\ Len(cartItems) > 0
          /\ ValidTokenForCurrentUser)
       => stage' = "completePurchase"]_vars

\* C2: startCheckout in stage shopping with a non-empty cart and no valid
\* token moves the stage to collectPayment, and the widget's onSuccess then
\* moves it to completePurchase with the token in session state.
C2_CheckoutWithoutTokenCollects ==
    [][/\ (last'.op = "startCheckout" /\ stage = "shopping" /\ Len(cartItems) > 0
             /\ ~ValidTokenForCurrentUser)
          => (stage' = "collectPayment" /\ last'.net = "none")
       /\ (last'.op = "collectPaymentInfo:success")
          => (stage' = "completePurchase" /\ paymentToken' \in WidgetTokens)]_vars

C2_Witness ==
    /\ last.op = "collectPaymentInfo:success"
    /\ stage = "completePurchase"
    /\ IsToken(paymentToken)
    /\ Len(cartItems) > 0

\* C3: with an empty cart startCheckout and processPurchase issue no request,
\* start no polling, and leave the stage at shopping, whatever the token is.
C3_EmptyCartNoNetwork ==
    [][(last'.op \in {"startCheckout", "processPurchase"} /\ Len(cartItems) = 0)
       => (last'.net = "none" /\ runs' = runs /\ stage' = "shopping")]_vars

C3_Witness ==
    /\ last.op = "processPurchase"
    /\ last.ret.text = EmptyCartText
    /\ stage = "shopping"
    /\ paymentToken = "token_placeholder"

\* C4: processPurchase with a non-empty cart and no valid token in session
\* state or store issues no request, sets the stage to collectPayment and
\* leaves cart and token store unchanged.
C4_MissingTokenNoNetwork ==
    [][(last'.op = "processPurchase" /\ stage = "completePurchase" /\ Len(cartItems) > 0
          /\ ~ValidTokenForCurrentUser)
       => /\ last'.net = "none"
          /\ runs' = runs
          /\ stage' = "collectPayment"
          /\ cartItems' = cartItems
          /\ localStorage' = localStorage
          /\ paymentToken' = paymentToken]_vars

C4_Witness ==
    /\ last.op = "processPurchase"
    /\ last.ret.text = MissingTokenText
    /\ stage = "collectPayment"
    /\ Len(cartItems) > 0
    /\ ~ValidTokenForCurrentUser

\* C5: at most one processPurchase invocation is in flight at any time.
C5_AtMostOneInFlight == Cardinality(InFlight) <= 1

\* C6: a purchase whose polls are all answered pending issues exactly 120
\* polls (a pending answer before the 120th leads to the next poll, no 121st
\* poll is issued), then fails: the error is stored and returned, the stage is
\* shopping, and cart and payment token (session and store) are those the
\* invocation started with.
C6_CeilingAfter120Polls ==
    [][/\ \A r \in RunIds : runs'[r].polls <= 120 /\ runs'[r].polls <= runs'[r].attempts
       /\ (last'.input = "pending" /\ last'.polls < 120)
          => (last'.op = "processPurchase:loop" /\ runs'[last'.run].pc = "sleep")
       /\ (last'.input = "pending" /\ last'.polls >= 120)
          => last'.cause = "timeout"
       /\ (last'.cause = "timeout")
          => /\ last'.polls = 120
             /\ last'.input = "pending"
             /\ last'.op = "processPurchase:catch"
             /\ runs'[last'.run].pc = "idle"
             /\ lastError' # <<>>
             /\ last'.ret.text = getErrorMessage(lastError'[1])
             /\ lastPurchaseResult' = lastPurchaseResult
             /\ stage' = "shopping"
             /\ cartItems' = cartItems
             /\ cartItems' = runs[last'.run].cartItems
             /\ paymentToken' = paymentToken
             /\ localStorage' = localStorage
             /\ PurchaseToken' = runs[last'.run].token]_vars

C6_Witness ==
    /\ last.cause = "timeout"
    /\ last.polls = 120
    /\ stage = "shopping"
    /\ Len(cartItems) > 0
    /\ IsToken(PurchaseToken)

\* C7: the error of an exhausted ceiling is a classified timeout: lastError
\* has type timeout and the returned text is the timeout report.
C7_CeilingIsTimeoutError ==
    (last.cause = "timeout")
    => /\ lastError # <<>>
       /\ lastError[1].type = "timeout"
       /\ Head(last.ret.text) = "Purchase Timeout: "

\* C8: the first completed answer, at poll k of 1..120, ends the invocation
\* after exactly k polls in success: cart empty, session token null, stored
\* token of the current user removed, lastPurchaseResult the result payload,
\* stage shopping, and no error stored.
C8_CompletedEndsInSuccess ==
    [][(last'.input = "completed")
       => /\ last'.op = "processPurchase:completed"
          /\ last'.cause = ""
          /\ last'.polls = runs[last'.run].attempts
          /\ last'.polls \in 1..120
          /\ runs'[last'.run].pc = "idle"
          /\ cartItems' = <<>>
          /\ paymentToken' = NULL
          /\ getWalletToken(localStorage', CURRENT_USER_ID) = NULL
          /\ Len(lastPurchaseResult') = 1
          /\ lastPurchaseResult'[1] \in Results
          /\ last'.ret.orderId = IF Truthy(lastPurchaseResult'[1].store_order_id)
                                 THEN lastPurchaseResult'[1].store_order_id ELSE "NEKUDA-now"
          /\ lastError' = lastError
          /\ stage' = "shopping"]_vars

C8_Witness ==
    /\ last.input = "completed"
    /\ last.polls = 120
    /\ cartItems = <<>>
    /\ paymentToken = NULL
    /\ lastPurchaseResult # <<>>
    /\ stage = "shopping"

\* C9: a failed status ends the polling of its invocation, stores the
\* classified error in lastError, sets the stage to shopping and leaves cart
\* and payment token (session and store) unchanged.
C9_FailedStatusKeepsCartAndToken ==
    [][(last'.input = "failed")
       => /\ last'.op = "processPurchase:failed"
          /\ runs'[last'.run].pc = "idle"
          /\ Len(lastError') = 1
          /\ lastError'[1].type \in ErrorTypes
          /\ last'.ret.text = getErrorMessage(lastError'[1])
          /\ stage' = "shopping"
          /\ cartItems' = cartItems
          /\ paymentToken' = paymentToken
          /\ localStorage' = localStorage]_vars

C9_Witness ==
    /\ last.input = "failed"
    /\ stage = "shopping"
    /\ Len(cartItems) > 0
    /\ IsToken(paymentToken)
    /\ lastError # <<>>

\* C10: a step of processPurchase empties the cart exactly when it received
\* status completed; every other step (rejected submission, transport error,
\* failed status, exhausted ceiling, missing token, pending) leaves the cart
\* as it was.
C10_CartClearedOnlyOnCompleted ==
    [][(last'.op \in OrchestratorOps)
       => IF last'.input = "completed"
          THEN cartItems' = <<>>
          ELSE cartItems' = cartItems]_vars

C10_Witness ==
    /\ last.cause = "pollRejected"
    /\ last.polls = 120
    /\ Len(cartItems) > 0
    /\ stage = "shopping"

\* the steps at which a processPurchase invocation returns
ReturnOps == {"processPurchase:catch", "processPurchase:completed", "processPurchase:failed"}

\* what ends an invocation in failure
FailureCauses == {"submitRejected", "submitFetch", "pollRejected", "pollFetch", "timeout"}

\* C11: an invocation of processPurchase that passed the two preconditions
\* ends only by returning a text: a suspended invocation is at the submission,
\* at the timer or at a poll, and it leaves only through the success return,
\* the failed-status return or the catch block.  Each return sets the stage
\* to shopping; each failure (rejected submission, transport error, failed
\* status, exhausted ceiling) stores a classified error in lastError and
\* returns that error's message.
C11_EveryInvocationReturnsAtShopping ==
    [][/\ \A r \in RunIds :
            /\ runs'[r].pc \in {"idle", "submit", "sleep", "poll"}
            /\ (runs[r].pc # "idle" /\ runs'[r].pc = "idle")
               => (last'.op \in ReturnOps /\ last'.run = r)
       /\ (last'.op \in ReturnOps)
          => /\ stage' = "shopping"
             /\ last'.ret.text # <<>>
             /\ runs'[last'.run].pc = "idle"
       /\ (last'.op = "processPurchase:catch") => last'.cause \in FailureCauses
       /\ (last'.op \in {"processPurchase:catch", "processPurchase:failed"})
          => /\ Len(lastError') = 1
             /\ lastError'[1].type \in ErrorTypes
             /\ lastError'[1].details # <<>>
             /\ last'.ret.text = getErrorMessage(lastError'[1])]_vars

C11_Witness ==
    /\ last.op = "processPurchase:failed"
    /\ last.polls = 120
    /\ stage = "shopping"
    /\ lastError # <<>>
    /\ lastError[1].type = "payment"

\* the stage in which each gated command is offered
CommandStage == [startCheckout |-> "shopping", collectPaymentInfo |-> "collectPayment",
                 processPurchase |-> "completePurchase", continueShopping |-> "completePurchase"]

C13_CollectWithTokenShowsNoForm ==
    [][/\ (last'.op = "collectPaymentInfo" /\ ValidTokenForCurrentUser)
          => /\ collect' = "timer"
             /\ paymentToken' = paymentToken
             /\ localStorage' = localStorage
       /\ (last'.op \in {"collectPaymentInfo:exists", "collectPaymentInfo:success"}
             /\ ValidTokenForCurrentUser)
          => /\ last'.op = "collectPaymentInfo:exists"
             /\ stage' = "completePurchase"
             /\ paymentToken' = paymentToken
             /\ localStorage' = localStorage]_vars

\* C14: a submission answered non-2xx ends the invocation at once: no poll
\* and no second submission are issued, the stage becomes shopping, cart and
\* payment token (session and store) are unchanged, the error stored carries
\* the detail of the answer (or "Checkout failed"), and when that message
\* contains "network" the text returned is the connection-error text of
\* getErrorMessage.
C14_RejectedSubmissionEndsAttempt ==
    [][(last'.cause = "submitRejected")
       => /\ last'.op = "processPurchase:catch"
          /\ last'.net = "none"
          /\ last'.polls = 0
          /\ runs'[last'.run].pc = "idle"
          /\ stage' = "shopping"
          /\ cartItems' = cartItems
          /\ paymentToken' = paymentToken
          /\ localStorage' = localStorage
          /\ Len(lastError') = 1
          /\ lastError'[1].details \in (SubmitDetails \ {<<>>}) \cup {MSG_CHECKOUT_FAILED}
          /\ Includes(ToLowerCase(lastError'[1].details), KW_NETWORK)
             => /\ lastError'[1].type = "network"
                /\ last'.ret.text = <<"Connection Error: ", "Cannot connect to checkout service",
                                      "Please ensure: ... Your cart has been preserved.">>]_vars

C14_Witness ==
    /\ last.cause = "submitRejected"
    /\ lastError # <<>>
    /\ lastError[1].details = DETAIL_NETWORK
    /\ Head(last.ret.text) = "Connection Error: "
    /\ stage = "shopping"
    /\ Len(cartItems) > 0
    /\ IsToken(paymentToken)

\* C15: getWalletToken(u) right after saveWalletToken(u, t) returns t, also
\* when a value had been saved for u before; getWalletToken(u) right after
\* clearWalletToken(u) returns null.
C15_StoreRoundTrip ==
    [][/\ (last'.op = "saveWalletToken")
          => getWalletToken(localStorage', last'.args[1]) = last'.args[2]
       /\ (last'.op = "clearWalletToken")
          => getWalletToken(localStorage', last'.args[1]) = NULL
       /\ (last.op = "saveWalletToken" /\ last'.op = "getWalletToken"
             /\ last'.args[1] = last.args[1])
          => last'.ret.text = <<last.args[2]>>
       /\ (last.op = "clearWalletToken" /\ last'.op = "getWalletToken"
             /\ last'.args[1] = last.args[1])
          => last'.ret.text = <<NULL>>]_vars

\* a token read back for one user while another user holds a different one
C15_Witness ==
    /\ last.op = "getWalletToken"
    /\ last.args = <<"user_b">>
    /\ last.ret.text = <<"tok_1">>
    /\ getWalletToken(localStorage, CURRENT_USER_ID) = "card_token_0001"

\* C16: the store is scoped per user id, and the checkout stages address the
\* slot of the current user only: no step of the session changes the value
\* stored for any other user id.
C16_StagesWriteCurrentUserSlotOnly ==
    [][\A u \in UserIdArgs \ {CURRENT_USER_ID} :
          getWalletToken(localStorage', u) = getWalletToken(localStorage, u)]_vars

\* validity of a token as the token store specifies it: not null, not the
\* empty string, not the sentinel, and at least 10 characters long
IsValidToken(t) == IsToken(t) /\ Len(t) >= 10

\* C17: each gate (startCheckout, collectPaymentInfo, processPurchase) lets a
\* token pass exactly when the token is valid: null, the empty string,
\* "token_placeholder" and every string shorter than 10 characters are
\* turned away, every other string of 10 or more characters passes.
C17_GatesApplyTokenValidity ==
    [][/\ (last'.op = "startCheckout" /\ Len(cartItems) > 0)
          => (stage' = "completePurchase" <=> IsValidToken(ExistingToken))
       /\ (last'.op = "collectPaymentInfo")
          => (collect' = "timer" <=> IsValidToken(ExistingToken))
       /\ (last'.op = "processPurchase" /\ Len(cartItems) > 0)
          => (last'.net = "submit" <=> IsValidToken(PurchaseToken))]_vars

\* C18: a status poll answered non-2xx (or not answered at all) ends the
\* invocation at that poll: polling goes on only after an answered status, no
\* further poll is issued, the classified error is stored in lastError and
\* returned, the stage becomes shopping, and cart, payment token (session and
\* store) and lastPurchaseResult are unchanged.
C18_PollTransportErrorAborts ==
    [][/\ (last'.op = "processPurchase:loop" /\ runs[last'.run].pc = "poll")
          => last'.input \in Statuses
       /\ (last'.cause \in {"pollRejected", "pollFetch"})
          => /\ last'.op = "processPurchase:catch"
             /\ runs[last'.run].pc = "poll"
             /\ runs'[last'.run].pc = "idle"
             /\ last'.net = "none"
             /\ last'.polls = runs[last'.run].polls
             /\ lastError' = <<classifyError(ErrorObj(IF last'.cause = "pollRejected"
                                                      THEN MSG_STATUS_CHECK
                                                      ELSE MSG_FAILED_TO_FETCH))>>
             /\ last'.ret.text = getErrorMessage(lastError'[1])
             /\ stage' = "shopping"
             /\ cartItems' = cartItems
             /\ paymentToken' = paymentToken
             /\ localStorage' = localStorage
             /\ lastPurchaseResult' = lastPurchaseResult]_vars

C18_Witness ==
    /\ last.cause = "pollRejected"
    /\ last.polls = 7
    /\ lastError # <<>>
    /\ lastError[1].type = "unknown"
    /\ lastError[1].details = MSG_STATUS_CHECK
    /\ stage = "shopping"
    /\ Len(cartItems) > 0
    /\ IsToken(PurchaseToken)

Progress(message) == [tag |-> "progress", text |-> message]

\* the progress message appended last to a history (none: the empty string)
LastAppended(history) ==
    IF history # <<>> /\ history[Len(history)].tag = "progress"
    THEN history[Len(history)].text
    ELSE <<>>

\* the history after a status answer with this message, as the claim has it
Surfaced(history, message) ==
    IF message # <<>> /\ message # LastAppended(history)
    THEN Append(history, Progress(message))
    ELSE history

\* C19: a status answer's message is appended to the history exactly when it
\* is non-empty and differs from the message appended last; the history thus
\* holds the messages in poll order without two equal neighbours, an answer
\* without message leaves history and last message alone, and a message that
\* comes again after a different one is appended again.
C19_ProgressDeduplicated ==
    [][/\ (last'.input = "pending" /\ last'.op = "processPurchase:loop")
          => /\ runs'[last'.run].statusUpdates
                  = Surfaced(runs[last'.run].statusUpdates, last'.message)
             /\ runs'[last'.run].lastStatus = LastAppended(runs'[last'.run].statusUpdates)
       /\ (last'.input = "failed")
          => last'.ret.history = Surfaced(runs[last'.run].statusUpdates, last'.message)
       /\ (last'.input = "completed" /\ last'.ret.history # <<>>)
          => last'.ret.history = Surfaced(runs[last'.run].statusUpdates, last'.message)
       /\ \A r \in RunIds : \A i \in 1..(Len(runs'[r].statusUpdates) - 1) :
             runs'[r].statusUpdates[i] # runs'[r].statusUpdates[i + 1]]_vars

C19_Witness ==
    /\ last.input = "pending"
    /\ last.message = PROGRESS_CART
    /\ runs[1].statusUpdates = <<[tag |-> "initiated", text |-> <<"p", "1">>],
                                 Progress(PROGRESS_CART), Progress(PROGRESS_FORM),
                                 Progress(PROGRESS_CART)>>

\* the progress entries of a history
ProgressEntries(history) == {history[i] : i \in {j \in 1..Len(history) : history[j].tag = "progress"}}

\* C20: whatever ends an invocation after its submission was accepted
\* (completed, failed status, transport error on a poll, exhausted ceiling),
\* the text returned carries every progress message accumulated so far.
C20_HistoryInEveryReport ==
    [][(last'.op \in ReturnOps /\ last'.polls >= 1)
       => ProgressEntries(Surfaced(runs[last'.run].statusUpdates, last'.message))
             \subseteq ProgressEntries(last'.ret.history)]_vars

\* the classes in the order of their tests, and the keywords of each
ClassPriority == <<"network", "automation", "payment", "timeout">>

ClassKeywords == [network |-> {KW_FETCH, KW_NETWORK, KW_CONNECTION},
                  automation |-> {KW_AUTOMATION, KW_BROWSER},
                  payment |-> {KW_PAYMENT, KW_NEKUDA, KW_SDK},
                  timeout |-> {KW_TIMEOUT}]

\* the text has a keyword of the class, in any letter case
HasKeywordOf(class, text) == \E k \in ClassKeywords[class] : Includes(ToLowerCase(text), k)

\* the first class in priority order that has a keyword in the text
FirstClass(text) ==
    IF \E i \in 1..Len(ClassPriority) : HasKeywordOf(ClassPriority[i], text)
    THEN ClassPriority[CHOOSE i \in 1..Len(ClassPriority) :
                          /\ HasKeywordOf(ClassPriority[i], text)
                          /\ \A j \in 1..(i - 1) : ~HasKeywordOf(ClassPriority[j], text)]
    ELSE "unknown"

\* C21: classifyError gives the type of the first class, in the order
\* network, automation, payment, timeout, that has a keyword in the message
\* (.message, else .error, else the string form of the input), whatever the
\* letter case, and unknown when no class has one; the message is kept as
\* details.
C21_ClassifierPriority ==
    (last.op = "classifyError")
    => /\ last.ret.text[1].type = FirstClass(ExtractMessage(last.args[1]))
       /\ last.ret.text[1].details = ExtractMessage(last.args[1])

\* a message with keywords of two classes gets the first of them
C21_Witness ==
    /\ last.op = "classifyError"
    /\ last.args = <<ErrorObj(KW_SDK \o <<" ">> \o KW_BROWSER)>>
    /\ last.ret.text[1].type = "automation"

\* C22: every error classifyError returns, of whatever type, is recoverable.
C22_AlwaysRecoverable ==
    (last.op = "classifyError")
    => /\ last.ret.text[1].type \in ErrorTypes
       /\ last.ret.text[1].recoverable = TRUE

C22_Witness ==
    /\ last.op = "classifyError"
    /\ last.ret.text[1].type = "unknown"
    /\ last.ret.text[1].recoverable = TRUE
    /\ last.args = <<StatusObj(<<>>, <<>>)>>

\* C23: an attempt issues its one submission when it is invoked and no other
\* later; a poll is issued only after the submission was answered and, from
\* the second poll on, after the poll before it was answered; so the attempt
\* never has two requests unanswered.
C23_RequestsOfAnAttemptSequential ==
    [][/\ (last'.net = "submit")
          => /\ last'.op = "processPurchase"
             /\ runs[last'.run].pc = "idle"
             /\ runs'[last'.run].pc = "submit"
             /\ runs'[last'.run].polls = 0
       /\ (last'.net = "poll")
          => /\ runs[last'.run].pc = "sleep"
             /\ runs'[last'.run].pc = "poll"
             /\ runs[last'.run].statusUpdates # <<>>
             /\ runs'[last'.run].polls = runs[last'.run].polls + 1
             /\ runs'[last'.run].polls = runs'[last'.run].attempts
       /\ \A r \in RunIds :
             /\ (runs[r].pc = "submit") => runs'[r].pc \in {"submit", "sleep", "idle"}
             /\ (runs[r].pc = "sleep") => runs'[r].pc \in {"sleep", "poll"}
             /\ (runs[r].pc = "poll") => runs'[r].pc \in {"poll", "sleep", "idle"}
             /\ (runs[r].pc \in {"submit", "poll"} /\ runs'[r].pc = runs[r].pc)
                => runs'[r] = runs[r]]_vars

C23_Witness ==
    /\ last.net = "poll"
    /\ last.polls = 2
    /\ runs[1].pc = "poll"
    /\ Len(runs[1].statusUpdates) = 2

\* C24: a polling loop ends only at a step of its own invocation that
\* received status completed or failed, met a transport error on a poll, or
\* exhausted the ceiling with the 120th poll.  No command stops it:
\* continueShopping issued while the loop is in flight sets the stage to
\* shopping and leaves the loop where it is.
C24_LoopEndsOnlyByItsOwnOutcome ==
    [][/\ \A r \in RunIds :
            (runs[r].pc \in {"sleep", "poll"} /\ runs'[r].pc = "idle")
            => /\ last'.run = r
               /\ \/ last'.input \in {"completed", "failed"}
                  \/ last'.cause \in {"pollRejected", "pollFetch"}
                  \/ last'.cause = "timeout" /\ last'.polls = 120
       /\ (last'.run = 0) => runs' = runs
       /\ (last'.op = "continueShopping") => (stage' = "shopping" /\ runs' = runs)]_vars

C24_Witness ==
    /\ last.op = "continueShopping"
    /\ stage = "shopping"
    /\ runs[1].pc = "poll"
    /\ runs[1].polls = 2

\* C25: the items and the total an attempt sends and, on success, reports
\* are those of the cart at the moment processPurchase was invoked: they are
\* taken at the invocation, no step changes them while the attempt is in
\* flight, and the success report lists them whatever the cart holds then.
C25_AttemptUsesCartOfInvocation ==
    [][/\ (last'.net = "submit")
          => /\ runs'[last'.run].cartItems = cartItems
             /\ runs'[last'.run].total = SumCart(cartItems)
       /\ \A r \in RunIds :
             (runs[r].pc # "idle" /\ runs'[r].pc # "idle")
             => /\ runs'[r].cartItems = runs[r].cartItems
                /\ runs'[r].total = runs[r].total
       /\ (last'.input = "completed")
          => /\ last'.ret.items = ItemsSummary(runs[last'.run].cartItems)
             /\ last'.ret.total = SumCart(runs[last'.run].cartItems)]_vars

\* the cart was changed while the attempt is at a poll
C25_Witness ==
    /\ runs[1].pc = "poll"
    /\ last.op = "addToCart"
    /\ runs[1].cartItems # cartItems
    /\ runs[1].total = 20
    /\ total = 40

\* the stage a step belongs to: that of the command it is a step of
StageOfOp(op) ==
    IF op = "startCheckout" THEN "shopping"
    ELSE IF op \in {"collectPaymentInfo", "collectPaymentInfo:exists", "collectPaymentInfo:success"}
    THEN "collectPayment"
    ELSE IF op \in OrchestratorOps \cup {"continueShopping"} THEN "completePurchase"
    ELSE "none"

\* C26: the stage and the payment token (session and store slot of the
\* current user) are changed only by a step of the command that belongs to
\* the stage active at that moment; a processPurchase attempt changes neither
\* while the stage is shopping or collectPayment.
C26_OnlyActiveStageChangesStageAndToken ==
    [][(stage' # stage \/ paymentToken' # paymentToken
          \/ getWalletToken(localStorage', CURRENT_USER_ID) # getWalletToken(localStorage, CURRENT_USER_ID))
       => (StageOfOp(last'.op) = stage \/ last'.op = "checkAndSaveExistingCards")]_vars

\* C27: while a processPurchase attempt is in flight the cart is changed by
\* no step other than the attempt's own: addToCart, removeFromCart and
\* clearCart take no effect between submission and terminal outcome.
C27_CartFrozenWhileInFlight ==
    [][(InFlight # {} /\ cartItems' # cartItems) => last'.op \in OrchestratorOps]_vars

\* C28: when payment collection succeeds with token t, the store holds t for
\* the current user and the session token is t.
C28_CollectedTokenStoredForCurrentUser ==
    (last.op = "collectPaymentInfo:success")
    => /\ paymentToken \in WidgetTokens
       /\ getWalletToken(localStorage, CURRENT_USER_ID) = paymentToken

\* C29: after clearCart the cart is empty and the current user has no valid
\* token, neither in session state nor in the store.
C29_ClearCartClearsToken ==
    (last.op = "clearCart") => (cartItems = <<>> /\ ~ValidTokenForCurrentUser)

\* C30: continueShopping, invoked in stage completePurchase, sets the stage to
\* shopping, returns its text and changes nothing else: cart, payment token
\* (session and store), lastPurchaseResult and lastError are as before.
C30_ContinueShoppingChangesStageOnly ==
    [][(last'.op = "continueShopping")
       => /\ stage = "completePurchase"
          /\ stage' = "shopping"
          /\ last'.ret.text = <<"Returning to shopping. How can I help you?">>
          /\ last'.net = "none"
          /\ cartItems' = cartItems
          /\ paymentToken' = paymentToken
          /\ localStorage' = localStorage
          /\ lastPurchaseResult' = lastPurchaseResult
          /\ lastError' = lastError
          /\ collect' = collect]_vars

C30_Witness ==
    /\ last.op = "continueShopping"
    /\ stage = "shopping"
    /\ Len(cartItems) > 0
    /\ IsToken(paymentToken)
    /\ lastError # <<>>
    /\ lastPurchaseResult # <<>>
    /\ Quiet

\* the stage changes that the stage controller is meant to make
StageEdges == {<<"shopping", "collectPayment">>, <<"shopping", "completePurchase">>,
               <<"collectPayment", "completePurchase">>, <<"completePurchase", "shopping">>,
               <<"completePurchase", "collectPayment">>}

\* C31: every change of the stage is one of the edges shopping->collectPayment,
\* shopping->completePurchase, collectPayment->completePurchase,
\* completePurchase->shopping, completePurchase->collectPayment; in particular
\* the stage never goes from collectPayment to shopping.
C31_StageChangesFollowEdges ==
    [][stage' # stage => <<stage, stage'>> \in StageEdges]_vars

\* C32 as stated: whenever the stage is completePurchase a valid payment token
\* is present, in session state or in the store for the current user.
C32_Counterexample ==
    stage = "completePurchase" => ValidTokenForCurrentUser

\* C32: whenever the stage is completePurchase the session state holds a
\* token, which is a valid one or the sentinel "token_placeholder" that the
\* payment widget delivered; a processPurchase invoked with the sentinel
\* submits nothing and moves the stage to collectPayment.
C32_CompletePurchaseHoldsTokenOrSentinel ==
    /\ stage = "completePurchase" => (IsToken(paymentToken) \/ paymentToken = "token_placeholder")
    /\ (last.op = "processPurchase" /\ last.net = "submit") => IsToken(runs[last.run].token)
    /\ (last.op = "processPurchase" /\ Len(cartItems) > 0 /\ paymentToken = "token_placeholder")
          => (stage = "collectPayment" /\ last.net = "none" /\ Quiet)

C32_Witness ==
    /\ last.op = "collectPaymentInfo:success"
    /\ stage = "completePurchase"
    /\ paymentToken = "token_placeholder"
    /\ ~ValidTokenForCurrentUser
    /\ Len(cartItems) > 0

\* C33 as stated, its conclusion: the stage does not come back from
\* collectPayment to completePurchase, after it was left without a submission
\* because the session token is the sentinel, with a token that fails the
\* check of processPurchase again.
C33_Counterexample ==
    [][(stage = "collectPayment" /\ paymentToken = "token_placeholder"
        /\ stage' = "completePurchase")
       => ~TokenMissing(PurchaseToken)']_vars

\* C33: the token checks agree: in every state in which the check of
\* startCheckout and collectPaymentInfo finds a valid token the check of
\* processPurchase passes; after startCheckout has moved the stage to
\* completePurchase the check of processPurchase passes; and after
\* processPurchase has reported the token missing the check of
\* collectPaymentInfo finds no valid token, so the payment form is shown.
C33_TokenChecksAgree ==
    /\ HasValidToken(ExistingToken) => ~TokenMissing(PurchaseToken)
    /\ (last.op \in {"startCheckout", "collectPaymentInfo:exists"} /\ stage = "completePurchase")
          => ~TokenMissing(PurchaseToken)
    /\ (last.op = "processPurchase" /\ last.ret.text = MissingTokenText)
          => ~HasValidToken(ExistingToken)
    /\ (last.op = "collectPaymentInfo" /\ paymentToken = "token_placeholder") => collect = "widget"

C33_Witness ==
    /\ last.op = "startCheckout"
    /\ stage = "completePurchase"
    /\ HasValidToken(ExistingToken)
    /\ PurchaseToken = paymentToken
    /\ lastError # <<>>
    /\ lastPurchaseResult = <<>>

\* C34: a processPurchase attempt that ends in success leaves no token the
\* check of startCheckout accepts; the next startCheckout with a non-empty
\* cart, no payment having been collected since the success, moves the stage
\* to collectPayment; and a submission issued after a success is issued with
\* a session token collected after it.
C34_AfterSuccessPaymentIsCollectedAgain ==
    [][/\ (last'.op = "processPurchase:completed")
            => (paymentToken' = NULL /\ ~HasValidToken(ExistingToken)' /\ stage' = "shopping")
       /\ (last'.op = "startCheckout" /\ lastPurchaseResult # <<>> /\ paymentToken = NULL
           /\ Len(cartItems) > 0)
            => stage' = "collectPayment"
       /\ (last'.op = "processPurchase" /\ last'.net = "submit" /\ lastPurchaseResult # <<>>)
            => IsToken(paymentToken)]_vars

C34_Witness ==
    /\ last.op = "startCheckout"
    /\ stage = "collectPayment"
    /\ lastPurchaseResult # <<>>
    /\ paymentToken = NULL
    /\ Len(cartItems) > 0
    /\ Quiet

\* the steps in which a processPurchase attempt ends in failure
FailureOps == {"processPurchase:catch", "processPurchase:failed"}

\* C35: a processPurchase attempt that ends in failure (rejected submission,
\* transport error, failed status, timeout) leaves the cart as it is and the
\* token of the attempt in session state, where the check of startCheckout
\* finds it; the token stays until a success or a new collection; the next
\* startCheckout with a non-empty cart moves the stage to completePurchase,
\* and the processPurchase that follows submits with that token.
C35_AfterFailureRetryKeepsToken ==
    [][/\ (last'.op \in FailureOps)
            => /\ last'.cause \in FailureCauses \/ last'.input = "failed"
               /\ stage' = "shopping"
               /\ cartItems' = cartItems
               /\ paymentToken' = runs[last'.run].token
               /\ HasValidToken(ExistingToken)'
       /\ (paymentToken' # paymentToken)
            => last'.op \in {"processPurchase:completed", "collectPaymentInfo:success"}
       /\ (last.op \in FailureOps /\ last'.op = "startCheckout" /\ Len(cartItems) > 0)
            => stage' = "completePurchase"
       /\ (last.op = "startCheckout" /\ stage = "completePurchase" /\ lastError # <<>>
           /\ last'.op = "processPurchase" /\ Len(cartItems) > 0)
            => (last'.net = "submit" /\ runs'[last'.run].token = paymentToken)]_vars

C35_Witness ==
    /\ last.op = "processPurchase"
    /\ last.net = "submit"
    /\ lastError # <<>>
    /\ lastError[1].details = TimeoutMessage
    /\ lastPurchaseResult = <<>>
    /\ runs[1].token = paymentToken
    /\ stage = "completePurchase"

\* the status values that end the polling loop
TerminalStatuses == {"completed", "failed"}

\* C36: the answer of a poll ends the loop exactly when its status is
\* completed or failed: completed is handled as success, failed as failure,
\* and on every other status value, also one outside pending, completed and
\* failed or none at all, the loop goes on: the answer counts as one of the
\* 120 attempts, the next poll follows, and after the 120th such answer the
\* attempt times out.
C36_OnlyTerminalStatusEndsPolling ==
    [][\A r \in OneRun, st \in Statuses \cup OtherStatuses :
         StatusAnswered(r, st)
         => /\ (st = "completed") <=> (last'.op = "processPurchase:completed")
            /\ (st = "failed") <=> (last'.op = "processPurchase:failed")
            /\ (st \notin TerminalStatuses)
                 => /\ last'.input = st
                    /\ \/ /\ last'.op = "processPurchase:loop"
                          /\ runs[r].attempts < maxAttempts
                          /\ runs'[r].attempts = runs[r].attempts + 1
                          /\ runs'[r].pc = "sleep"
                          /\ stage' = stage
                       \/ /\ last'.op = "processPurchase:catch"
                          /\ last'.cause = "timeout"
                          /\ runs[r].attempts = maxAttempts
                          /\ runs[r].polls = maxAttempts]_vars

C36_Witness ==
    /\ last.op = "processPurchase:catch"
    /\ last.cause = "timeout"
    /\ last.input = "processing"
    /\ last.polls = maxAttempts
    /\ stage = "shopping"

\* the steps in which a poll with a terminal status is handled
TerminalOps == {"processPurchase:completed", "processPurchase:failed"}

\* C37: when the answer of a poll has status completed or failed and carries
\* a message, the history in the text returned is the history before that
\* answer with the message appended under the deduplication rule: the message
\* is in the report, as its last progress entry, once.
C37_TerminalMessageInReport ==
    [][(last'.op \in TerminalOps /\ last'.message # <<>>)
       => /\ last'.ret.history = Surfaced(runs[last'.run].statusUpdates, last'.message)
          /\ LastAppended(last'.ret.history) = last'.message
          /\ Progress(last'.message) \in ProgressEntries(last'.ret.history)]_vars

C37_Witness ==
    /\ last.op = "processPurchase:completed"
    /\ last.message = PROGRESS_FORM
    /\ last.polls = 2
    /\ last.ret.history = <<[tag |-> "initiated", text |-> <<"p", "1">>],
                            Progress(PROGRESS_CART), Progress(PROGRESS_FORM)>>

====
